---- MODULE Spec2Model ----
(***************************************************************************)
(* Verification model of the "get-registro-ans" scraping pipeline:         *)
(*   main.py              paginated listing crawler (one CSV per page)     *)
(*   join.py              merger of the page shards                        *)
(*   get_cnpj.py          enrichment stage 1: CNPJ per "Registro ANS"      *)
(*   get_cnpj_cnpjbiz.py  enrichment stage 2: address + first phone        *)
(*   get-operadora.py     API enrichment stage                             *)
(*                                                                         *)
(* Strings of the program are tuples of one-character strings, so that     *)
(* whitespace normalisation, digit filtering and the CSV round trip are    *)
(* computed, not assumed.  Column names are kept as TLA+ strings; the      *)
(* accented names are written in ASCII ("Razao Social", "Municipio").      *)
(***************************************************************************)
EXTENDS Integers, Sequences, FiniteSets, TLC

(***************************************************************************)
(* Bounds of the model (not program constants).                            *)
(***************************************************************************)
\* rows of a short base table
MaxShort == 2
\* consecutive runs of one stage
MaxRuns == 2
\* records whose page loads go wrong (empty page, raised failure), over the
\* runs of a short table, and of a long table
MaxFaults == 2
MaxLongFaults == 0
\* a long base table has k * BATCH_SIZE or k * BATCH_SIZE + 1 rows, k up to
MaxBatches == 2
\* pages of the listing
MaxPages == 3
\* iterations of the crawl loop that are followed
MaxIter == 4
\* spontaneous changes of the listing page (total changes, indicator or
\* table disappears) during one crawl
MaxUiEvents == 1

(***************************************************************************)
(* Program constants.                                                      *)
(***************************************************************************)
\* get_cnpj.py:28 and get_cnpj_cnpjbiz.py:41
BATCH_SIZE == 10
\* get_cnpj_cnpjbiz.py:221 (digits of a valid CNPJ)
CNPJ_DIGITS == 14

(***************************************************************************)
(* Character strings.                                                      *)
(***************************************************************************)
E == <<>>
WSChars == {" ", "\t", "\n"}
DigitChars == {"0", "1", "2", "3", "4", "5", "6", "7", "8", "9"}

Range(s) == {s[i] : i \in DOMAIN s}

\* re.sub(r"\s+", " ", s): every maximal run of whitespace becomes one space
RECURSIVE CollapseWS(_)
CollapseWS(s) ==
  IF s = <<>> THEN <<>>
  ELSE IF Head(s) \in WSChars
       THEN IF Len(s) > 1 /\ s[2] \in WSChars
            THEN CollapseWS(Tail(s))
            ELSE <<" ">> \o CollapseWS(Tail(s))
       ELSE <<Head(s)>> \o CollapseWS(Tail(s))

\* str.strip(): leading and trailing whitespace removed
RECURSIVE LStrip(_)
LStrip(s) ==
  IF s # <<>> /\ Head(s) \in WSChars THEN LStrip(Tail(s)) ELSE s

RECURSIVE RStrip(_)
RStrip(s) ==
  IF s # <<>> /\ s[Len(s)] \in WSChars THEN RStrip(SubSeq(s, 1, Len(s) - 1)) ELSE s

Strip(s) == RStrip(LStrip(s))

\* _clean / clean: collapse whitespace runs, then strip
clean(s) == Strip(CollapseWS(s))

\* only_digits: re.sub(r"\D", "", s)
only_digits(s) == SelectSeq(s, LAMBDA c : c \in DigitChars)

(***************************************************************************)
(* Tables (pandas DataFrames) and CSV files.                               *)
(* A table is [cols |-> <<column names>>, rows |-> <<row, ...>>], a row a  *)
(* function from the column names to strings.  A file is a table, or       *)
(* Absent.  to_csv writes every cell as it is; read_csv(dtype=str) reads   *)
(* the pandas NA tokens as NaN, which fillna("") turns into "".            *)
(***************************************************************************)
Absent == [absent |-> TRUE]

NA == <<"N", "A">>
\* the pandas default na_values that the model's strings can spell
NAValues == {<<>>, NA}

Cols(t) == Range(t.cols)
NRows(t) == Len(t.rows)

to_csv(df) == df

read_csv(file) ==
  [cols |-> file.cols,
   rows |-> [i \in DOMAIN file.rows |->
               [c \in Cols(file) |->
                  IF file.rows[i][c] \in NAValues THEN E ELSE file.rows[i][c]]]]

\* out[c] = "" for every column c of cs that df lacks
AddCols(df, cs) ==
  LET new == SelectSeq(cs, LAMBDA c : c \notin Cols(df)) IN
  [cols |-> df.cols \o new,
   rows |-> [i \in DOMAIN df.rows |->
               [c \in Cols(df) \cup Range(new) |->
                  IF c \in Cols(df) THEN df.rows[i][c] ELSE E]]]

RECURSIVE Flatten(_)
Flatten(ss) == IF ss = <<>> THEN <<>> ELSE Head(ss) \o Flatten(Tail(ss))

\* rows of `right` equal to row l on every key column, in right order
MatchRows(l, right, keys) ==
  SelectSeq(right.rows, LAMBDA r : \A k \in Range(keys) : r[k] = l[k])

\* pd.merge(left, right[keys + bring], on=keys, how="left") for `bring`
\* columns that left lacks: left order kept, one output row per matching
\* right row (in right order), one row with NaN -> "" when none matches
PdMergeLeft(left, right, keys, bring) ==
  [cols |-> left.cols \o bring,
   rows |-> Flatten([i \in DOMAIN left.rows |->
              LET l == left.rows[i]
                  ms == MatchRows(l, right, keys)
              IN IF ms = <<>>
                 THEN << [c \in Cols(left) \cup Range(bring) |->
                            IF c \in Cols(left) THEN l[c] ELSE E] >>
                 ELSE [j \in DOMAIN ms |->
                         [c \in Cols(left) \cup Range(bring) |->
                            IF c \in Cols(left) THEN l[c] ELSE ms[j][c]]]])]

\* pd.merge(..., suffixes=("", "_old")) followed by the per-column
\* where(len > 0, _old.fillna("")): `bring` columns exist on both sides
PdMergeLeftKeepNew(left, right, keys, bring) ==
  [cols |-> left.cols,
   rows |-> Flatten([i \in DOMAIN left.rows |->
              LET l == left.rows[i]
                  ms == MatchRows(l, right, keys)
              IN IF ms = <<>>
                 THEN << l >>
                 ELSE [j \in DOMAIN ms |->
                         [c \in Cols(left) |->
                            IF c \in Range(bring) /\ Len(l[c]) = 0
                            THEN ms[j][c] ELSE l[c]]]])]

(***************************************************************************)
(* Stages, their files and their field groups.                             *)
(***************************************************************************)
F_UNIFICADO == "registro-ans-unificado.csv"
F_COM_CNPJ == "registro-ans-unificado-com-cnpj.csv"
F_TODOS == "registro-ans-unificado-com-todos-os-dados.csv"
F_COMPLETO == "registro-ans-dados-completo.csv"
FileNames == {F_UNIFICADO, F_COM_CNPJ, F_TODOS, F_COMPLETO}

Stages == {"cnpj", "biz", "operadora"}

INPUT_CSV(st) == IF st = "cnpj" THEN F_UNIFICADO ELSE F_COM_CNPJ
OUTPUT_CSV(st) ==
  CASE st = "cnpj" -> F_COM_CNPJ
    [] st = "biz" -> F_TODOS
    [] OTHER -> F_COMPLETO

BaseCols == <<"Registro ANS", "Razao Social", "Nome Fantasia">>
target_cols ==
  <<"Logradouro", "Complemento", "Bairro", "CEP", "Municipio", "Estado", "Telefone 1">>

\* the columns a stage fills
Group(st) == IF st = "cnpj" THEN <<"CNPJ">> ELSE target_cols
\* variant: both stages look for the registration number only
RequiredColRegistro(st) == "Registro ANS"

\* the column a stage requires of its input
RequiredCol(st) == IF st = "biz" THEN "CNPJ" ELSE "Registro ANS"

ensure_output_columns(df) == AddCols(df, target_cols)

\* get_cnpj.py merge_with_existing
merge_with_existing_cnpj(df_in, file) ==
  IF file = Absent
  THEN AddCols(df_in, <<"CNPJ">>)
  ELSE LET df_out == AddCols(read_csv(file), <<"CNPJ">>)
           both == SelectSeq(BaseCols,
                             LAMBDA c : c \in Cols(df_in) /\ c \in Cols(df_out))
           merge_keys == IF both = <<>> THEN <<"Registro ANS">> ELSE both
       IN PdMergeLeft(df_in, df_out, merge_keys, <<"CNPJ">>)

\* get_cnpj_cnpjbiz.py merge_with_existing
merge_with_existing_biz(df_in, file) ==
  LET df_out == ensure_output_columns(df_in) IN
  IF file = Absent
  THEN df_out
  ELSE LET old == ensure_output_columns(read_csv(file))
           both == SelectSeq(<<"Registro ANS", "CNPJ">>,
                             LAMBDA k : k \in Cols(df_out) /\ k \in Cols(old))
           keys == IF both # <<>> THEN both
                   ELSE IF "CNPJ" \in Cols(df_out) /\ "CNPJ" \in Cols(old)
                        THEN <<"CNPJ">>
                        ELSE SubSeq(df_out.cols, 1, 1)
       IN PdMergeLeftKeepNew(df_out, old, keys, target_cols)

\* variant: a load that starts over from the input, whatever was collected
merge_from_scratch(st, df_in, file) ==
  IF st = "cnpj" THEN merge_with_existing_cnpj(df_in, Absent)
  ELSE merge_with_existing_biz(df_in, Absent)

merge_with_existing(st, df_in, file) ==
  IF st = "cnpj" THEN merge_with_existing_cnpj(df_in, file)
  ELSE merge_with_existing_biz(df_in, file)

(***************************************************************************)
(* Detail pages of stage 1 (ANS) and the CNPJ extraction chain.            *)
(***************************************************************************)
Letters ==
  {"a", "b", "c", "d", "e", "f", "g", "h", "i", "j", "k", "l", "m", "n", "o",
   "p", "q", "r", "s", "t", "u", "v", "w", "x", "y", "z",
   "A", "B", "C", "D", "E", "F", "G", "H", "I", "J", "K", "L", "M", "N", "O",
   "P", "Q", "R", "S", "T", "U", "V", "W", "X", "Y", "Z"}
WordChars == DigitChars \cup Letters \cup {"_"}

\* CNPJ_REGEX = \b\d{2}\.\d{3}\.\d{3}/\d{4}-\d{2}\b  ("9" stands for \d)
CNPJ_MASK ==
  <<"9", "9", ".", "9", "9", "9", ".", "9", "9", "9", "/", "9", "9", "9", "9", "-", "9", "9">>

MatchesCnpjAt(s, p) ==
  LET n == Len(CNPJ_MASK) IN
  /\ p + n - 1 <= Len(s)
  /\ \A k \in 1..n :
       IF CNPJ_MASK[k] = "9" THEN s[p + k - 1] \in DigitChars
       ELSE s[p + k - 1] = CNPJ_MASK[k]
  /\ (p = 1 \/ s[p - 1] \notin WordChars)
  /\ (p + n - 1 = Len(s) \/ s[p + n] \notin WordChars)

\* extract_cnpj_text: the leftmost match of CNPJ_REGEX, or ""
extract_cnpj_text(text) ==
  LET ps == {p \in 1..Len(text) : MatchesCnpjAt(text, p)} IN
  IF ps = {} THEN E
  ELSE LET p == CHOOSE q \in ps : \A r \in ps : q <= r
       IN SubSeq(text, p, p + Len(CNPJ_MASK) - 1)

CNPJ_A == <<"1", "2", ".", "3", "4", "5", ".", "6", "7", "8", "/", "0", "0", "0", "1", "-", "9", "0">>
CNPJ_B == <<"9", "8", ".", "7", "6", "5", ".", "4", "3", "2", "/", "0", "0", "0", "1", "-", "1", "0">>
\* a malformed tax id (3 digits)
CNPJ_BAD == <<"1", "2", "3">>

\* A rendered ANS detail page: the element with id formConsulta:outCNPJ and
\* its text, the value cell next to the label "CNPJ:", and the page source.
AnsDoc(hasId, idText, hasLabel, labelText, html) ==
  [hasId |-> hasId, idText |-> idText, hasLabel |-> hasLabel,
   labelText |-> labelText, html |-> html]

DocId(c) == AnsDoc(TRUE, c, TRUE, c, <<"<">> \o c \o <<">">>)
DocLabel(c) == AnsDoc(FALSE, E, TRUE, <<" ">> \o c, <<"<">> \o c \o <<">">>)
DocHtml(c) == AnsDoc(FALSE, E, FALSE, E, <<"x", " ">> \o c \o <<";">>)
DocNone == AnsDoc(FALSE, E, FALSE, E, <<"<", ">">>)

\* variant: the cell next to the label is read before the element by id
fetch_cnpj_label_first(doc, reloaded) ==
  LET s2 == IF doc.hasLabel THEN extract_cnpj_text(doc.labelText) ELSE E
      s1 == IF doc.hasId THEN extract_cnpj_text(doc.idText) ELSE E
  IN IF s2 # E THEN s2
     ELSE IF s1 # E THEN s1
     ELSE extract_cnpj_text(doc.html)

\* fetch_cnpj after driver.get succeeded: `doc` is the page as loaded,
\* `reloaded` the page after the driver.refresh() that follows a timeout of
\* the first attempt to locate the element by id.
fetch_cnpj(doc, reloaded) ==
  LET s1a == IF doc.hasId THEN extract_cnpj_text(doc.idText) ELSE E
      cur == IF doc.hasId THEN doc ELSE reloaded
      s1b == IF cur.hasId THEN extract_cnpj_text(cur.idText) ELSE E
      s2 == IF cur.hasLabel THEN extract_cnpj_text(cur.labelText) ELSE E
      s3 == extract_cnpj_text(cur.html)
  IN IF s1a # E THEN s1a
     ELSE IF s1b # E THEN s1b
     ELSE IF s2 # E THEN s2
     ELSE s3

(***************************************************************************)
(* Detail pages of stage 2 (cnpj.biz) and parse_location_and_phone.        *)
(* A page is the sequence of its <h2> and <p> elements in document order.  *)
(* An h2 carries its id and the section its text names ("Localizacao",     *)
(* "Contatos" or another); a p carries the field label its text starts     *)
(* with, the text of its <b> child ("" when it has none) and the first     *)
(* PHONE_REGEX match of its text ("" when there is none).                  *)
(***************************************************************************)
H2(id, section) == [tag |-> "h2", id |-> id, section |-> section,
                    label |-> "", b |-> E, phone |-> E]
P(label, b, phone) == [tag |-> "p", id |-> "", section |-> "",
                       label |-> label, b |-> b, phone |-> phone]

EmptyPatch == [c \in Range(target_cols) |-> E]

\* index of the first element satisfying Test, 0 when there is none
FirstIndex(doc, Test(_)) ==
  LET is == {i \in DOMAIN doc : Test(doc[i])} IN
  IF is = {} THEN 0 ELSE CHOOSE i \in is : \A j \in is : i <= j

\* the elements after index h up to (excluding) the next h2
SectionAfter(doc, h) ==
  LET nxt == {j \in DOMAIN doc : j > h /\ doc[j].tag = "h2"}
      stop == IF nxt = {} THEN Len(doc) + 1
              ELSE CHOOSE j \in nxt : \A k \in nxt : j <= k
  IN SubSeq(doc, h + 1, stop - 1)

RECURSIVE LocFields(_, _)
LocFields(ps, out) ==
  IF ps = <<>> THEN out
  ELSE LET n == Head(ps) IN
       LocFields(Tail(ps),
                 IF n.tag = "p" /\ n.label \in Range(target_cols) \ {"Telefone 1"}
                 THEN [out EXCEPT ![n.label] = clean(n.b)]
                 ELSE out)

parse_location_and_phone(doc) ==
  LET h2_loc == FirstIndex(doc, LAMBDA n : n.tag = "h2" /\ n.section = "Localizacao")
      loc == IF h2_loc = 0 THEN EmptyPatch
             ELSE LocFields(SectionAfter(doc, h2_loc), EmptyPatch)
      byId == FirstIndex(doc, LAMBDA n : n.tag = "h2" /\ n.id = "contato")
      h2_cont == IF byId # 0 THEN byId
                 ELSE FirstIndex(doc, LAMBDA n : n.tag = "h2" /\ n.section = "Contatos")
      sec == IF h2_cont = 0 THEN <<>> ELSE SectionAfter(doc, h2_cont)
      hit == FirstIndex(sec, LAMBDA n : n.tag = "p" /\ n.phone # E)
  IN IF hit = 0 THEN loc ELSE [loc EXCEPT !["Telefone 1"] = sec[hit].phone]

V_RUA == <<"R", "u", "a", " ", " ", "X">>
V_X == <<"x">>
V_FONE == <<"(", "1", "1", ")", " ", "4", "0", "0", "4", "-", "1", "2", "3", "4">>

LocSection(compl) ==
  << H2("", "Localizacao"),
     P("Logradouro", V_RUA, E), P("Complemento", compl, E), P("Bairro", V_X, E),
     P("CEP", V_X, E), P("Municipio", V_X, E), P("Estado", V_X, E) >>
ContSection ==
  << H2("contato", "Contatos"), P("other", E, E), P("other", E, V_FONE),
     P("other", E, V_X) >>

\* a complete page, a page without contacts section, a page whose
\* Complemento reads "NA", a page without location section, an empty page
BizFull == << H2("", "Outro") >> \o LocSection(V_X) \o ContSection
BizNoContacts == << H2("", "Outro") >> \o LocSection(V_X)
BizComplNA == LocSection(NA) \o ContSection
BizNoLoc == ContSection \o << H2("", "Outro"), P("Logradouro", V_X, E) >>
BizEmpty == << H2("", "Outro"), P("other", V_X, E) >>

(***************************************************************************)
(* Inputs: base tables, page shards, and what the upstream sites answer.   *)
(***************************************************************************)
DigitSeq == <<"0", "1", "2", "3", "4", "5", "6", "7", "8", "9">>
RECURSIVE DigitStr(_)
DigitStr(i) ==
  IF i < 10 THEN <<DigitSeq[i + 1]>>
  ELSE DigitStr(i \div 10) \o <<DigitSeq[(i % 10) + 1]>>

K1 == <<"1">>
K2 == <<"2">>
N_A == <<"A">>
N_B == <<"B">>
N_F == <<"F">>

BaseRow(reg, razao) ==
  [c \in Range(BaseCols) |->
     IF c = "Registro ANS" THEN reg ELSE IF c = "Razao Social" THEN razao ELSE N_F]
CnpjRow(reg, razao, cnpj) ==
  [c \in Range(BaseCols) \cup {"CNPJ"} |->
     IF c = "CNPJ" THEN cnpj ELSE BaseRow(reg, razao)[c]]

\* a listing: an operator listed twice, once more under a changed name,
\* and a second operator
Listing == <<BaseRow(K1, N_A), BaseRow(K1, N_A), BaseRow(K1, N_B), BaseRow(K2, N_A)>>
\* rows of the stage-1 output: valid, valid without phone on the site,
\* the same key under another CNPJ, and a malformed CNPJ
CNPJ_C == <<"1", "1", ".", "2", "2", "2", ".", "3", "3", "3", "/", "0", "0", "0", "1", "-", "4", "4">>
ComCnpj ==
  <<CnpjRow(K1, N_A, CNPJ_A), CnpjRow(K1, N_A, CNPJ_A), CnpjRow(K2, N_A, CNPJ_B),
    CnpjRow(K2, N_A, CNPJ_BAD), CnpjRow(K1, N_A, CNPJ_C)>>

\* the runs of at most n consecutive rows of s
Windows(s, n) ==
  {SubSeq(s, i, j) : i \in 1..Len(s), j \in 0..Len(s)} \cap
  UNION {[1..k -> Range(s)] : k \in 0..n}

LongSizes == UNION {{k * BATCH_SIZE, k * BATCH_SIZE + 1} : k \in 1..MaxBatches}

ListingCols == BaseCols
ComCnpjCols == BaseCols \o <<"CNPJ">>

ShortListings == {[cols |-> ListingCols, rows |-> r] : r \in Windows(Listing, MaxShort)}
LongListings ==
  {[cols |-> ListingCols, rows |-> [i \in 1..n |-> BaseRow(DigitStr(i), N_A)]] : n \in LongSizes}
ShortComCnpj == {[cols |-> ComCnpjCols, rows |-> r] : r \in Windows(ComCnpj, MaxShort)}
\* long stage-1 outputs: every BATCH_SIZE-th row holds a malformed CNPJ
LongComCnpj ==
  {[cols |-> ComCnpjCols,
    rows |-> [i \in 1..n |->
                CnpjRow(DigitStr(i), N_A, IF i % BATCH_SIZE = 0 THEN CNPJ_BAD ELSE CNPJ_B)]] :
     n \in LongSizes}
\* an input of stage 2 that is not a stage-1 output (no CNPJ column)
NoCnpjColumn == [cols |-> ListingCols, rows |-> <<BaseRow(K1, N_A)>>]

\* page shards "<k>-<date>.csv", k in Pages: one listing row per page, or
\* the whole listing in page 1
Pages == 1..MaxPages
OnePerPage(t) ==
  [k \in Pages |-> IF k <= NRows(t) THEN [cols |-> t.cols, rows |-> <<t.rows[k]>>] ELSE Absent]
AllInOne(t) == [k \in Pages |-> IF k = 1 THEN t ELSE Absent]
NoShards == [k \in Pages |-> Absent]
\* a registration number with a leading zero, as the listing shows it
K07 == <<"0", "7">>
ZeroListing == [cols |-> ListingCols, rows |-> <<BaseRow(K07, N_A)>>]
\* a shard that lacks the column of the registration number
NoKeyListing ==
  [cols |-> <<"Razao Social", "Nome Fantasia">>,
   rows |-> <<[c \in {"Razao Social", "Nome Fantasia"} |-> N_A]>>]
ShardSets ==
  {OnePerPage(t) : t \in ShortListings}
    \cup {AllInOne(t) : t \in ShortListings \cup LongListings \cup {ZeroListing, NoKeyListing}}

\* What one page load yields: the page (and, for the ANS site, the page as
\* it is after a refresh), a Selenium TimeoutException / WebDriverException,
\* or any other exception (e.g. the connection to a dead driver refused).
OkAns(doc, reloaded) == [kind |-> "ok", doc |-> doc, reloaded |-> reloaded]
OkBiz(doc) == [kind |-> "ok", doc |-> doc]
RaiseSelenium == [kind |-> "selenium"]
RaiseOther == [kind |-> "other"]

\* the answer of the sites when nothing goes wrong
NominalAns(reg) ==
  IF reg = K1 THEN OkAns(DocId(CNPJ_A), DocId(CNPJ_A))
  ELSE IF reg = K2 THEN OkAns(DocLabel(CNPJ_B), DocLabel(CNPJ_B))
  ELSE OkAns(DocHtml(CNPJ_A), DocHtml(CNPJ_A))
NominalBiz(digits) ==
  IF digits = only_digits(CNPJ_A) THEN OkBiz(BizFull)
  ELSE IF digits = only_digits(CNPJ_B) THEN OkBiz(BizNoContacts)
  ELSE IF digits = only_digits(CNPJ_C) THEN OkBiz(BizComplNA)
  ELSE OkBiz(BizEmpty)
\* the answers that count as faults
FaultsAns == {OkAns(DocNone, DocNone), OkAns(DocNone, DocId(CNPJ_A)), RaiseSelenium, RaiseOther}
FaultsBiz == {OkBiz(BizEmpty), OkBiz(BizNoLoc), RaiseSelenium, RaiseOther}

(***************************************************************************)
(* pd.read_csv without dtype=str (join.py, get-operadora.py): column types *)
(* are inferred, and to_csv writes the parsed values.                      *)
(***************************************************************************)
IsIntLit(v) == v # <<>> /\ Range(v) \subseteq DigitChars

RECURSIVE StripZeros(_)
StripZeros(v) == IF Len(v) > 1 /\ Head(v) = "0" THEN StripZeros(Tail(v)) ELSE v

\* dtype of column c of one parsed file: int64, float64 (integers and NaN)
\* or object
ColType(t, c) ==
  LET cells == {t.rows[i][c] : i \in DOMAIN t.rows}
      vals == cells \ NAValues
  IN IF vals = {} THEN "float"
     ELSE IF \A v \in vals : IsIntLit(v)
          THEN IF cells \cap NAValues = {} THEN "int" ELSE "float"
          ELSE "object"

\* dtype of column c of pd.concat(ts); frames without rows do not count
ConcatType(ts, c) ==
  LET tys == {ColType(ts[k], c) : k \in {j \in DOMAIN ts : NRows(ts[j]) > 0}}
  IN IF tys \subseteq {"int"} THEN "int"
     ELSE IF tys \subseteq {"int", "float"} THEN "float"
     ELSE "object"

\* the text to_csv writes for cell v, parsed in a column of dtype own, in a
\* concatenated column of dtype ct
WrittenCell(v, own, ct) ==
  IF v \in NAValues THEN E
  ELSE IF own = "object" THEN v
  ELSE IF ct = "int" \/ (ct = "object" /\ own = "int") THEN StripZeros(v)
  ELSE StripZeros(v) \o <<".", "0">>

\* pd.concat([pd.read_csv(f) for f in files], ignore_index=True).to_csv():
\* files with the same columns
ConcatInferred(ts) ==
  IF ts = <<>> THEN Absent
  ELSE LET own == [k \in DOMAIN ts |-> [c \in Cols(ts[1]) |-> ColType(ts[k], c)]]
           ct == [c \in Cols(ts[1]) |-> ConcatType(ts, c)]
       IN [cols |-> ts[1].cols,
           rows |-> Flatten([k \in DOMAIN ts |->
                      [i \in DOMAIN ts[k].rows |->
                         [c \in Cols(ts[1]) |->
                            WrittenCell(ts[k].rows[i][c], own[k][c], ct[c])]]])]

(***************************************************************************)
(* State.                                                                  *)
(***************************************************************************)
VARIABLES
  stage,                \* the script that is running
  shards,               \* page shard files: page index -> table or Absent
  fs,                   \* the fixed-name CSV files: name -> table or Absent
  pc,                   \* position of the running script
  run,                  \* number of the current run of the stage
  df_out,               \* the working table (results list of get-operadora)
  pending_idx,          \* the pending row indices (1-based), in table order
  pos,                  \* position of the loop in pending_idx
  processed_since_save, \* the batch counter
  data,                 \* result of the fetch of the current record
  \* environment and history
  faults,               \* non-nominal page loads so far
  long,                 \* the base table is a long one
  attempts,             \* page loads made for the current record
  nfetch,               \* page loads of this run
  writes,               \* for each write of the output file in this run, the
                        \* number of records handled before it
  first,                \* what the first page load of the current record led to
  unsaved,              \* records handled in this run since the last write
  outAtStart,           \* the output file as it was when this run started
  baseChanged,          \* the base source was regenerated before this run
  prevPc,               \* how the previous run ended ("none" in run 1)
  fetched,              \* row indices whose detail page was loaded in this run
  emptied,              \* keys whose fetch yielded an all-empty result, this run
  prevEmptied,          \* ... in the previous run
  pace,                 \* the last request of this run, and whether two loads met
  \* a single call of a function of the program
  arg,                  \* its arguments
  ret                   \* what it returned

VARIABLES
  ui,                   \* the listing page in the browser
  cpc,                  \* position of main.py
  current,              \* main.py: page index read from the indicator
  total,                \* main.py: total read from the indicator
  old_tbody,            \* click_next_and_wait: the table element held
  rows,                 \* the page snapshot taken by extract_page_data
  iterations,           \* iterations of the crawl loop started so far
  yielded,              \* the page indices persisted so far, in order
  saved,                \* the page snapshots persisted so far, in order
  firstTotal            \* the first total main.py observed

\* every variable of the stages but the shard files
stageVars ==
  <<stage, fs, pc, run, df_out, pending_idx, pos, processed_since_save, data,
    faults, long, attempts, nfetch, writes, first, unsaved, outAtStart,
    baseChanged, prevPc, fetched, emptied, prevEmptied, pace, arg, ret>>

crawlVars == <<ui, cpc, current, total, old_tbody, rows, iterations, yielded, saved, firstTotal>>

vars == <<shards, stageVars, crawlVars>>

\* Python's None, for the integers current and total
None == 0 - 1

\* main.py is not running
CrawlIdle ==
  /\ ui = [page |-> 1, total |-> 1, gen |-> 1, loading |-> 0, label |-> TRUE,
           table |-> TRUE, events |-> 0]
  /\ cpc = "idle"
  /\ current = None
  /\ total = None
  /\ old_tbody = 0
  /\ rows = 0
  /\ iterations = 0
  /\ yielded = <<>>
  /\ saved = <<>>
  /\ firstTotal = None

NoTable == [cols |-> <<>>, rows |-> <<>>]
NoFiles == [f \in FileNames |-> Absent]

\* no single call is being followed
NoCall == arg = <<>> /\ ret = <<>>

\* no page has been requested in this run
NoRequest == [last |-> "none", unpaced |-> FALSE]

\* the values every run starts from
RunStart(st, files, r, changed, prev, prevE) ==
  /\ stage = st
  /\ fs = files
  /\ pc = "start"
  /\ run = r
  /\ df_out = NoTable
  /\ pending_idx = <<>>
  /\ pos = 0
  /\ processed_since_save = 0
  /\ data = <<>>
  /\ attempts = 0
  /\ nfetch = 0
  /\ writes = <<>>
  /\ first = "none"
  /\ unsaved = 0
  /\ outAtStart = files[OUTPUT_CSV(st)]
  /\ baseChanged = changed
  /\ prevPc = prev
  /\ fetched = {}
  /\ emptied = {}
  /\ prevEmptied = prevE
  /\ pace = NoRequest

InitJoin ==
  /\ NoCall
  /\ CrawlIdle
  /\ shards \in ShardSets
  /\ long = (shards[1] # Absent /\ NRows(shards[1]) >= BATCH_SIZE)
  /\ faults = 0
  /\ RunStart("join", NoFiles, 1, FALSE, "none", {})

InitStage2 ==
  /\ NoCall
  /\ CrawlIdle
  /\ shards = NoShards
  /\ faults = 0
  /\ \E st \in {"biz", "operadora"} :
       \E t \in ShortComCnpj \cup LongComCnpj \cup {NoCnpjColumn, Absent} :
         /\ long = (t # Absent /\ NRows(t) >= BATCH_SIZE)
         /\ RunStart(st, [NoFiles EXCEPT ![F_COM_CNPJ] = t], 1, FALSE, "none", {})

Init == InitJoin \/ InitStage2

\* the same values, for the state a new run starts in
RunStartNext(st, files, r, changed, prev, prevE) ==
  /\ stage' = st
  /\ fs' = files
  /\ pc' = "start"
  /\ run' = r
  /\ df_out' = NoTable
  /\ pending_idx' = <<>>
  /\ pos' = 0
  /\ processed_since_save' = 0
  /\ data' = <<>>
  /\ attempts' = 0
  /\ nfetch' = 0
  /\ writes' = <<>>
  /\ first' = "none"
  /\ unsaved' = 0
  /\ outAtStart' = files[OUTPUT_CSV(st)]
  /\ baseChanged' = changed
  /\ prevPc' = prev
  /\ fetched' = {}
  /\ emptied' = {}
  /\ prevEmptied' = prevE
  /\ pace' = NoRequest
  /\ UNCHANGED <<arg, ret>>

(***************************************************************************)
(* join.py.                                                                *)
(***************************************************************************)
\* the shard tables in ascending order of the integer before the first "-"
ShardsInOrder ==
  LET present == {k \in Pages : shards[k] # Absent}
      order == SelectSeq([k \in Pages |-> k], LAMBDA k : k \in present)
  IN [j \in DOMAIN order |-> shards[order[j]]]

\* variant: a name without an integer prefix is left out of the sort
UnsortableNever(files) == FALSE

\* some .csv of the directory has a name whose part before the first "-"
\* is no integer: the fixed-name files all start with "registro"
Unsortable(files) == \E f \in FileNames : files[f] # Absent

\* The sort key int(name.split("-")[0]) raises ValueError for every
\* fixed-name CSV of the directory ("registro" is no integer); pd.concat
\* raises ValueError when there is no file at all.
Join ==
  /\ UNCHANGED <<crawlVars, first, pace, arg, ret>>
  /\ stage = "join" /\ pc = "start"
  /\ IF Unsortable(fs) \/ ShardsInOrder = <<>>
     THEN /\ pc' = "crashed"
          /\ UNCHANGED <<fs, writes>>
     ELSE /\ fs' = [fs EXCEPT ![F_UNIFICADO] = ConcatInferred(ShardsInOrder)]
          /\ writes' = Append(writes, 0)
          /\ pc' = "done"
  /\ UNCHANGED <<stage, shards, run, df_out, pending_idx, pos, processed_since_save,
                 data, faults, long, attempts, nfetch, unsaved, outAtStart,
                 baseChanged, prevPc, fetched, emptied, prevEmptied>>

\* join.py is started again in the directory that now holds its output
JoinAgain ==
  /\ UNCHANGED crawlVars
  /\ stage = "join" /\ pc = "done" /\ run < MaxRuns
  /\ RunStartNext("join", fs, run + 1, FALSE, pc, {})
  /\ UNCHANGED <<shards, faults, long>>

\* get_cnpj.py is started on what join.py left behind
StartCnpj ==
  /\ UNCHANGED crawlVars
  /\ stage = "join" /\ pc \in {"done", "crashed"}
  /\ RunStartNext("cnpj", fs, 1, FALSE, "none", {})
  /\ UNCHANGED <<shards, faults, long>>

(***************************************************************************)
(* get_cnpj.py and get_cnpj_cnpjbiz.py: main.                              *)
(***************************************************************************)
Enrich == stage \in {"cnpj", "biz"}
Out == OUTPUT_CSV(stage)

\* variant: only the empty string counts as unset
PendingIdxEmptyOnly(st, df) ==
  SelectSeq([i \in 1..NRows(df) |-> i],
            LAMBDA i : \E c \in Range(Group(st)) : df.rows[i][c] = E)

\* rows with at least one field of the stage's group empty after clean
PendingIdx(st, df) ==
  SelectSeq([i \in 1..NRows(df) |-> i],
            LAMBDA i : \E c \in Range(Group(st)) : clean(df.rows[i][c]) = E)

\* variant: a field for which nothing was found is marked, not left empty
NOT_FOUND == <<"-">>
ApplyPatchMarked(st, r, d) ==
  [c \in DOMAIN r |->
     IF c \in DOMAIN d THEN (IF clean(d[c]) = E THEN NOT_FOUND ELSE clean(d[c])) ELSE r[c]]

\* variant: the row is rebuilt from the result alone
ApplyPatchWholeRow(st, r, d) ==
  [c \in DOMAIN r |-> IF c \in DOMAIN d THEN d[c] ELSE E]

\* the write-back of one result into row r
ApplyPatch(st, r, d) ==
  [c \in DOMAIN r |->
     IF c \in DOMAIN d THEN (IF st = "biz" THEN clean(d[c]) ELSE d[c]) ELSE r[c]]

\* load_inputs / the checks of main, then merge_with_existing
Load ==
  /\ UNCHANGED <<crawlVars, first, pace, arg, ret>>
  /\ Enrich /\ pc = "start"
  /\ LET inp == fs[INPUT_CSV(stage)] IN
     IF \/ inp = Absent
        \/ RequiredCol(stage) \notin Cols(inp)
        \/ (stage = "cnpj" /\ "CNPJ" \in Cols(inp) /\ fs[Out] # Absent)
     THEN /\ pc' = "crashed"
          /\ UNCHANGED df_out
     ELSE /\ df_out' = merge_with_existing(stage, read_csv(inp), fs[Out])
          /\ pc' = "loaded"
  /\ UNCHANGED <<stage, shards, fs, run, pending_idx, pos, processed_since_save, data,
                 faults, long, attempts, nfetch, writes, unsaved, outAtStart,
                 baseChanged, prevPc, fetched, emptied, prevEmptied>>

\* "garante criar arquivo de saida desde o inicio"
EnsureOutput ==
  /\ UNCHANGED <<crawlVars, first, pace, arg, ret>>
  /\ Enrich /\ pc = "loaded"
  /\ IF fs[Out] = Absent
     THEN /\ fs' = [fs EXCEPT ![Out] = to_csv(df_out)]
          /\ writes' = Append(writes, 0)
     ELSE UNCHANGED <<fs, writes>>
  /\ pc' = "pending"
  /\ UNCHANGED <<stage, shards, run, df_out, pending_idx, pos, processed_since_save,
                 data, faults, long, attempts, nfetch, unsaved, outAtStart,
                 baseChanged, prevPc, fetched, emptied, prevEmptied>>

ComputePending ==
  /\ UNCHANGED <<crawlVars, first, pace, arg, ret>>
  /\ Enrich /\ pc = "pending"
  /\ pending_idx' = PendingIdx(stage, df_out)
  /\ IF pending_idx' = <<>>
     THEN pc' = "done" /\ pos' = 0
     ELSE pc' = "fetch" /\ pos' = 1
  /\ processed_since_save' = 0
  /\ UNCHANGED <<stage, shards, fs, run, df_out, data, faults, long, attempts, nfetch,
                 writes, unsaved, outAtStart, baseChanged, prevPc, fetched, emptied,
                 prevEmptied>>

CurIdx == pending_idx[pos]
CurRow == df_out.rows[CurIdx]
CurReg == clean(CurRow["Registro ANS"])
CurDigits == only_digits(clean(CurRow["CNPJ"]))

Budget == IF long THEN MaxLongFaults ELSE MaxFaults
Nominal == IF stage = "cnpj" THEN NominalAns(CurReg) ELSE NominalBiz(CurDigits)
Outcomes ==
  {Nominal} \cup (IF faults < Budget
                  THEN (IF stage = "cnpj" THEN FaultsAns ELSE FaultsBiz)
                  ELSE {})

CnpjPatch(v) == [c \in {"CNPJ"} |-> v]

\* variant: any CNPJ that has a digit counts as well-formed
ValidCnpjAnyLength == CurDigits # E

ValidCnpj == CurDigits # E /\ Len(CurDigits) = CNPJ_DIGITS

\* stage 2 only: a CNPJ without exactly 14 digits is skipped, and counted
SkipInvalid ==
  /\ UNCHANGED <<crawlVars, first, pace, arg, ret>>
  /\ stage = "biz" /\ pc = "fetch" /\ ~ValidCnpj
  /\ processed_since_save' = processed_since_save + 1
  /\ unsaved' = unsaved + 1
  /\ pc' = "batch_skip"
  /\ UNCHANGED <<stage, shards, fs, run, df_out, pending_idx, pos, data, faults, long,
                 attempts, nfetch, writes, outAtStart, baseChanged, prevPc, fetched,
                 emptied, prevEmptied>>

\* one call of the fetch function requests the page with driver.get; stage 1
\* requests it again with driver.refresh() when the element by id was not
\* found at the first attempt
Reloads(st, o) == st = "cnpj" /\ o.kind = "ok" /\ ~o.doc.hasId

AfterLoads(p, st, o) ==
  [last |-> "load", unpaced |-> p.unpaced \/ p.last = "load" \/ Reloads(st, o)]

\* time.sleep
AfterSleep(p) == [p EXCEPT !.last = "sleep"]

\* what the first page load of a record leads to:
\*   stage 1: a value -> write it; "" -> second attempt; any exception -> ""
\*   stage 2: a page -> its fields; TimeoutException/WebDriverException ->
\*            second attempt; any other exception leaves main
AfterFirst(st, o) ==
  IF st = "cnpj"
  THEN IF o.kind = "ok"
       THEN LET v == fetch_cnpj(o.doc, o.reloaded) IN
            IF v # E THEN [pc |-> "writeback", data |-> CnpjPatch(v)]
            ELSE [pc |-> "retry", data |-> CnpjPatch(E)]
       ELSE [pc |-> "writeback", data |-> CnpjPatch(E)]
  ELSE IF o.kind = "ok"
       THEN [pc |-> "writeback", data |-> parse_location_and_phone(o.doc)]
       ELSE IF o.kind = "selenium"
            THEN [pc |-> "retry", data |-> <<>>]
            ELSE [pc |-> "crashed", data |-> <<>>]

\* what the second page load leads to: any exception gives the empty result
AfterSecond(st, o) ==
  IF st = "cnpj"
  THEN IF o.kind = "ok"
       THEN [pc |-> "writeback", data |-> CnpjPatch(fetch_cnpj(o.doc, o.reloaded))]
       ELSE [pc |-> "writeback", data |-> CnpjPatch(E)]
  ELSE IF o.kind = "ok"
       THEN [pc |-> "writeback", data |-> parse_location_and_phone(o.doc)]
       ELSE [pc |-> "writeback", data |-> EmptyPatch]

Fetch1 ==
  /\ UNCHANGED <<crawlVars, arg, ret>>
  /\ Enrich /\ pc = "fetch" /\ (stage = "biz" => ValidCnpj)
  /\ \E o \in Outcomes :
       /\ faults' = IF o = Nominal THEN faults ELSE faults + 1
       /\ pc' = AfterFirst(stage, o).pc
       /\ first' = o.kind
       /\ data' = AfterFirst(stage, o).data
       /\ pace' = AfterLoads(pace, stage, o)
  /\ attempts' = 1
  /\ nfetch' = nfetch + 1
  /\ fetched' = fetched \cup {CurIdx}
  /\ UNCHANGED <<stage, shards, fs, run, df_out, pending_idx, pos, processed_since_save,
                 long, writes, unsaved, outAtStart, baseChanged, prevPc, emptied,
                 prevEmptied>>

\* the second load of a record whose first load went wrong
Fetch2 ==
  /\ UNCHANGED <<crawlVars, first, arg, ret>>
  /\ Enrich /\ pc = "retry"
  /\ \E o \in {Nominal} \cup (IF stage = "cnpj" THEN FaultsAns ELSE FaultsBiz) :
       /\ pc' = AfterSecond(stage, o).pc
       /\ data' = AfterSecond(stage, o).data
       /\ pace' = AfterLoads(AfterSleep(pace), stage, o)
  /\ UNCHANGED faults
  /\ attempts' = 2
  /\ nfetch' = nfetch + 1
  /\ UNCHANGED <<stage, shards, fs, run, df_out, pending_idx, pos, processed_since_save,
                 long, writes, unsaved, outAtStart, baseChanged, prevPc, fetched,
                 emptied, prevEmptied>>

AllEmpty(d) == \A c \in DOMAIN d : clean(d[c]) = E

WriteBack ==
  /\ UNCHANGED <<crawlVars, first, pace, arg, ret>>
  /\ Enrich /\ pc = "writeback"
  /\ df_out' = [df_out EXCEPT !.rows[CurIdx] = ApplyPatch(stage, CurRow, data)]
  /\ processed_since_save' = processed_since_save + 1
  /\ unsaved' = unsaved + 1
  /\ emptied' = IF AllEmpty(data) THEN emptied \cup {CurRow["Registro ANS"]} ELSE emptied
  /\ pc' = "batch"
  /\ UNCHANGED <<stage, shards, fs, run, pending_idx, pos, data, faults, long, attempts,
                 nfetch, writes, outAtStart, baseChanged, prevPc, fetched, prevEmptied>>

\* "salva em lote", then the next pending index
\* variant: the save falls due one record late
BatchDueLate(n) == n > BATCH_SIZE

BatchDue(n) == n >= BATCH_SIZE

BatchSave ==
  /\ UNCHANGED <<crawlVars, arg, ret>>
  /\ Enrich /\ pc \in {"batch", "batch_skip"}
  /\ IF BatchDue(processed_since_save)
     THEN /\ fs' = [fs EXCEPT ![Out] = to_csv(df_out)]
          /\ writes' = Append(writes, pos)
          /\ unsaved' = 0
          /\ processed_since_save' = 0
     ELSE UNCHANGED <<fs, writes, unsaved, processed_since_save>>
  /\ IF pos = Len(pending_idx)
     THEN pc' = "final" /\ pos' = pos
     ELSE pc' = "fetch" /\ pos' = pos + 1
  /\ attempts' = 0
  /\ first' = "none"
  /\ pace' = IF pc = "batch" THEN AfterSleep(pace) ELSE pace
  /\ UNCHANGED <<stage, shards, run, df_out, pending_idx, data, faults, long, nfetch,
                 outAtStart, baseChanged, prevPc, fetched, emptied, prevEmptied>>

\* "salva o restante"
FinalSave ==
  /\ UNCHANGED <<crawlVars, first, arg, ret>>
  /\ Enrich /\ pc = "final"
  /\ IF processed_since_save > 0
     THEN /\ fs' = [fs EXCEPT ![Out] = to_csv(df_out)]
          /\ writes' = Append(writes, pos)
          /\ unsaved' = 0
     ELSE UNCHANGED <<fs, writes, unsaved>>
  /\ pace' = IF stage = "cnpj" /\ processed_since_save > 0
           THEN AfterSleep(pace) ELSE pace
  /\ pc' = "done"
  /\ UNCHANGED <<stage, shards, run, df_out, pending_idx, pos, processed_since_save,
                 data, faults, long, attempts, nfetch, outAtStart, baseChanged, prevPc,
                 fetched, emptied, prevEmptied>>

\* the same script is started again
NextRun ==
  /\ UNCHANGED crawlVars
  /\ Enrich /\ pc \in {"done", "crashed"} /\ run < MaxRuns
  /\ RunStartNext(stage, fs, run + 1, FALSE, pc, emptied)
  /\ UNCHANGED <<shards, faults, long>>

\* ... after the base source was regenerated: another table with the same
\* registration keys, in the same order, takes the place of the input file
Regenerated(st, t) ==
  {u \in (IF st = "cnpj" THEN ShortListings ELSE ShortComCnpj) :
     /\ "Registro ANS" \in Cols(t)
     /\ NRows(u) = NRows(t)
     /\ u # t
     /\ \A i \in DOMAIN t.rows : u.rows[i]["Registro ANS"] = t.rows[i]["Registro ANS"]}

RegenerateAndRun ==
  /\ UNCHANGED crawlVars
  /\ Enrich /\ pc \in {"done", "crashed"} /\ run < MaxRuns /\ ~long
  /\ fs[INPUT_CSV(stage)] # Absent
  /\ \E u \in Regenerated(stage, fs[INPUT_CSV(stage)]) :
       RunStartNext(stage, [fs EXCEPT ![INPUT_CSV(stage)] = u], run + 1, TRUE, pc, emptied)
  /\ UNCHANGED <<shards, faults, long>>

(***************************************************************************)
(* get-operadora.py.                                                       *)
(***************************************************************************)
V_OK == <<"o", "k">>
V_HTTP == <<"H", "T", "T", "P", " ", "5", "0", "0">>
\* fetch_ans_data never raises: the JSON of the API, or {"erro": ...}
ApiNominal == [c \in {"dado"} |-> V_OK]
ApiFaults == {[c \in {"erro"} |-> V_HTTP]}

\* df = pd.read_csv(INPUT): the rows as parsed
OpFrame == ConcatInferred(<<fs[INPUT_CSV("operadora")]>>)

\* results.append({**row.to_dict(), **data}), kept as the table
\* pd.DataFrame(results) builds: columns in order of first appearance, NaN
\* (written as "") where a result lacks a column
AppendResult(res, row, d) ==
  LET new == SelectSeq(<<"dado", "erro">>, LAMBDA c : c \in DOMAIN d /\ c \notin Cols(res))
      wide == AddCols(res, new)
      merged == [c \in Cols(wide) |->
                   IF c \in DOMAIN d THEN d[c]
                   ELSE IF c \in DOMAIN row THEN row[c] ELSE E]
  IN [wide EXCEPT !.rows = Append(wide.rows, merged)]

OpLoad ==
  /\ UNCHANGED <<crawlVars, first, pace, arg, ret>>
  /\ stage = "operadora" /\ pc = "start"
  /\ IF fs[INPUT_CSV(stage)] = Absent
     THEN pc' = "crashed" /\ UNCHANGED <<df_out, pos>>
     ELSE /\ df_out' = [cols |-> OpFrame.cols, rows |-> <<>>]
          /\ IF NRows(OpFrame) = 0
             THEN pc' = "opsave" /\ pos' = 0
             ELSE pc' = "opfetch" /\ pos' = 1
  /\ UNCHANGED <<stage, shards, fs, run, pending_idx, processed_since_save, data,
                 faults, long, attempts, nfetch, writes, unsaved, outAtStart,
                 baseChanged, prevPc, fetched, emptied, prevEmptied>>

OpFetch ==
  /\ UNCHANGED <<crawlVars, first, pace, arg, ret>>
  /\ stage = "operadora" /\ pc = "opfetch"
  /\ IF "Registro ANS" \notin Cols(OpFrame)
     THEN /\ pc' = "crashed"
          /\ UNCHANGED <<df_out, pos, faults, nfetch, unsaved, fetched>>
     ELSE /\ \E d \in {ApiNominal} \cup (IF faults < Budget THEN ApiFaults ELSE {}) :
               /\ faults' = IF d = ApiNominal THEN faults ELSE faults + 1
               /\ df_out' = AppendResult(df_out, OpFrame.rows[pos], d)
          /\ nfetch' = nfetch + 1
          /\ unsaved' = unsaved + 1
          /\ fetched' = fetched \cup {pos}
          /\ IF pos = NRows(OpFrame)
             THEN pc' = "opsave" /\ pos' = pos
             ELSE pc' = "opfetch" /\ pos' = pos + 1
  /\ UNCHANGED <<stage, shards, fs, run, pending_idx, processed_since_save, data, long,
                 attempts, writes, outAtStart, baseChanged, prevPc, emptied,
                 prevEmptied>>

OpSave ==
  /\ UNCHANGED <<crawlVars, first, pace, arg, ret>>
  /\ stage = "operadora" /\ pc = "opsave"
  /\ fs' = [fs EXCEPT ![Out] = to_csv(df_out)]
  /\ writes' = Append(writes, pos)
  /\ unsaved' = 0
  /\ pc' = "done"
  /\ UNCHANGED <<stage, shards, run, df_out, pending_idx, pos, processed_since_save,
                 data, faults, long, attempts, nfetch, outAtStart, baseChanged, prevPc,
                 fetched, emptied, prevEmptied>>

(***************************************************************************)
(* Specification of the merger and the enrichment stages.                  *)
(***************************************************************************)
Next ==
  \/ Join
  \/ JoinAgain
  \/ StartCnpj
  \/ Load
  \/ EnsureOutput
  \/ ComputePending
  \/ SkipInvalid
  \/ Fetch1
  \/ Fetch2
  \/ WriteBack
  \/ BatchSave
  \/ FinalSave
  \/ NextRun
  \/ RegenerateAndRun
  \/ OpLoad
  \/ OpFetch
  \/ OpSave

Spec == Init /\ [][Next]_vars

(***************************************************************************)
(* main.py: the crawler of the paginated listing.                          *)
(*                                                                         *)
(* The listing page: ui.page is the page whose rows the table shows,       *)
(* ui.total the number of pages, ui.gen the identity of the current table  *)
(* element (a response to "next" replaces the element), ui.loading the     *)
(* clicks on "next" whose Ajax response has not arrived, ui.label and      *)
(* ui.table whether the indicator and the table exist in the page.         *)
(***************************************************************************)
\* the text of the indicator, "<page> de <total>"
LabelText(u) == DigitStr(u.page) \o <<" ", "d", "e", " ">> \o DigitStr(u.total)

RECURSIVE ParseInt(_)
ParseInt(ds) ==
  IF ds = <<>> THEN 0
  ELSE 10 * ParseInt(SubSeq(ds, 1, Len(ds) - 1))
       + (CHOOSE d \in 0..9 : DigitSeq[d + 1] = ds[Len(ds)])

\* the end of the maximal run of characters of S that starts at p (p - 1
\* when s[p] is not in S)
RECURSIVE RunEnd(_, _, _)
RunEnd(s, p, S) ==
  IF p <= Len(s) /\ s[p] \in S THEN RunEnd(s, p + 1, S) ELSE p - 1

\* re.search(r"(\d+)\s*de\s*(\d+)", texto): the two integers of the
\* leftmost match, (None, None) when there is none
parse_current_total(texto) ==
  LET Match(p) ==
        LET e1 == RunEnd(texto, p, DigitChars)
            d == RunEnd(texto, e1 + 1, WSChars) + 1
            s2 == RunEnd(texto, d + 2, WSChars) + 1
            e2 == RunEnd(texto, s2, DigitChars)
        IN IF /\ e1 >= p
              /\ d + 1 <= Len(texto) /\ texto[d] = "d" /\ texto[d + 1] = "e"
              /\ e2 >= s2
           THEN <<ParseInt(SubSeq(texto, p, e1)), ParseInt(SubSeq(texto, s2, e2))>>
           ELSE <<None, None>>
      ps == {p \in 1..Len(texto) : Match(p) # <<None, None>>}
  IN IF ps = {} THEN <<None, None>>
     ELSE Match(CHOOSE p \in ps : \A q \in ps : p <= q)

\* get_current_and_total: a missing indicator times out
get_current_and_total(u) ==
  IF u.label THEN parse_current_total(Strip(LabelText(u))) ELSE <<None, None>>

\* the rows extract_page_data parses from the table that shows page k
PageTable(k) == [cols |-> ListingCols, rows |-> <<BaseRow(DigitStr(k), N_A)>>]

InitCrawl ==
  /\ NoCall
  /\ shards = NoShards
  /\ faults = 0
  /\ long = FALSE
  /\ RunStart("crawl", NoFiles, 1, FALSE, "none", {})
  /\ \E t \in 1..MaxPages :
       ui = [page |-> 1, total |-> t, gen |-> 1, loading |-> 0, label |-> TRUE,
             table |-> TRUE, events |-> 0]
  /\ cpc = "startup"
  /\ current = None
  /\ total = None
  /\ old_tbody = 0
  /\ rows = 0
  /\ iterations = 0
  /\ yielded = <<>>
  /\ saved = <<>>
  /\ firstTotal = None

\* the Ajax response to one click arrives: the next page is shown in a new
\* table element, and the indicator follows
UiRespond ==
  /\ cpc \notin {"idle", "done", "stopped", "crashed"}
  /\ ui.loading > 0
  /\ ui' = [ui EXCEPT !.loading = @ - 1,
                      !.gen = @ + 1,
                      !.page = IF @ < ui.total THEN @ + 1 ELSE @]
  /\ UNCHANGED <<shards, stageVars, cpc, current, total, old_tbody, rows, iterations,
                 yielded, saved, firstTotal>>

\* the listing grows or shrinks by a page, the indicator disappears, or
\* the table disappears
UiEvent ==
  /\ cpc \notin {"idle", "done", "stopped", "crashed"}
  /\ ui.events < MaxUiEvents
  /\ \/ \E t \in {ui.total - 1, ui.total + 1} :
          /\ t \in 1..MaxPages /\ ui.page <= t
          /\ ui' = [ui EXCEPT !.total = t, !.events = @ + 1]
     \/ ui.label /\ ui' = [ui EXCEPT !.label = FALSE, !.events = @ + 1]
     \/ ui.table /\ ui' = [ui EXCEPT !.table = FALSE, !.events = @ + 1]
  /\ UNCHANGED <<shards, stageVars, cpc, current, total, old_tbody, rows, iterations,
                 yielded, saved, firstTotal>>

\* main, up to the loop: open the page, click "Pesquisar", wait for the
\* table (a timeout leaves main), read the indicator once
Startup ==
  /\ cpc = "startup"
  /\ IF ui.table
     THEN LET ct == get_current_and_total(ui) IN
          /\ IF ct[1] = None \/ ct[1] = 0 \/ ct[2] = None \/ ct[2] = 0
             THEN current' = 1 /\ total' = 1
             ELSE current' = ct[1] /\ total' = ct[2]
          /\ firstTotal' = total'
          /\ cpc' = "read"
     ELSE /\ cpc' = "crashed"
          /\ UNCHANGED <<current, total, firstTotal>>
  /\ UNCHANGED <<shards, stageVars, ui, old_tbody, rows, iterations, yielded, saved>>

\* "Revalida a cada iteracao"
ReadIndicator ==
  /\ cpc = "read" /\ iterations < MaxIter
  /\ LET ct == get_current_and_total(ui) IN
     /\ current' = IF ct[1] = None THEN 1 ELSE ct[1]
     /\ total' = ct[2]
  /\ iterations' = iterations + 1
  /\ cpc' = "extract"
  /\ UNCHANGED <<shards, stageVars, ui, old_tbody, rows, yielded, saved, firstTotal>>

\* extract_page_data: the table as it is now; no table is a timeout
Extract ==
  /\ cpc = "extract"
  /\ IF ui.table
     THEN rows' = ui.page /\ cpc' = "save"
     ELSE cpc' = "crashed" /\ UNCHANGED rows
  /\ UNCHANGED <<shards, stageVars, ui, current, total, old_tbody, iterations, yielded, saved,
                 firstTotal>>

\* variant: the loop ends only on a total that was read
LoopEndsOnKnownTotal(cur, tot) == tot # None /\ cur >= tot

\* "if total is None or current >= total: break"
LoopEnds(cur, tot) == tot = None \/ cur >= tot

\* df.to_csv(f"{current}-{today}.csv"), then the exit test of the loop
Save ==
  /\ cpc = "save"
  /\ shards' = [shards EXCEPT ![current] = to_csv(PageTable(rows))]
  /\ yielded' = Append(yielded, current)
  /\ saved' = Append(saved, rows)
  /\ cpc' = IF LoopEnds(current, total) THEN "done" ELSE "click"
  /\ UNCHANGED <<stageVars, ui, current, total, old_tbody, rows, iterations, firstTotal>>

\* the paginator marks "next" with the class ui-state-disabled on the last page
NextDisabledNever(u) == FALSE

NextDisabled(u) == u.page >= u.total

\* click_next_and_wait, up to the click: False when "next" is disabled
ClickNext ==
  /\ cpc = "click"
  /\ IF ~ui.table
     THEN cpc' = "crashed" /\ UNCHANGED <<ui, old_tbody>>
     ELSE /\ old_tbody' = ui.gen
          /\ IF NextDisabled(ui)
             THEN cpc' = "stopped" /\ UNCHANGED ui
             ELSE /\ ui' = [ui EXCEPT !.loading = @ + 1]
                  /\ cpc' = "wait_stale"
  /\ UNCHANGED <<shards, stageVars, current, total, rows, iterations, yielded, saved, firstTotal>>

\* the bounded waits after the click: for the old table to go stale (else
\* a short sleep), for a table to exist (a timeout leaves main), for the
\* indicator to reach current + 1 (a timeout is ignored)
WaitAfterClick ==
  /\ cpc = "wait_stale"
  /\ cpc' = IF ui.table THEN "read" ELSE "crashed"
  /\ UNCHANGED <<shards, stageVars, ui, current, total, old_tbody, rows, iterations,
                 yielded, saved, firstTotal>>

NextCrawl ==
  \/ UiRespond
  \/ UiEvent
  \/ Startup
  \/ ReadIndicator
  \/ Extract
  \/ Save
  \/ ClickNext
  \/ WaitAfterClick

SpecCrawl == InitCrawl /\ [][NextCrawl]_vars

(***************************************************************************)
(* One run of an enrichment stage that finds an output file left by        *)
(* earlier executions or edited by hand: cells of the stage's columns may  *)
(* hold blanks.                                                            *)
(***************************************************************************)
BLANK1 == <<" ">>
BLANK2 == <<" ", "\t">>

\* the rows of t, each with the columns of d added
WithFields(t, d) ==
  [i \in DOMAIN t |->
     [c \in DOMAIN t[i] \cup DOMAIN d[i] |-> IF c \in DOMAIN d[i] THEN d[i][c] ELSE t[i][c]]]

PriorCnpj == {CnpjPatch(v) : v \in {E, BLANK1, BLANK2, CNPJ_A}}
PriorBiz ==
  LET full == parse_location_and_phone(BizFull) IN
  {full, EmptyPatch, [full EXCEPT !["Telefone 1"] = BLANK1],
   [full EXCEPT !["Complemento"] = BLANK2]}

PriorOutputs(st, t) ==
  {[cols |-> t.cols \o Group(st), rows |-> WithFields(t.rows, d)] :
     d \in [DOMAIN t.rows -> IF st = "cnpj" THEN PriorCnpj ELSE PriorBiz]}

InitResume ==
  /\ NoCall
  /\ CrawlIdle
  /\ shards = NoShards
  /\ faults = 0
  /\ long = FALSE
  /\ \E st \in {"cnpj", "biz"} :
       \E t \in (IF st = "cnpj" THEN ShortListings ELSE ShortComCnpj) :
         \E old \in PriorOutputs(st, t) :
           RunStart(st, [NoFiles EXCEPT ![INPUT_CSV(st)] = t, ![OUTPUT_CSV(st)] = old],
                    1, FALSE, "none", {})

NextResume ==
  \/ Load
  \/ EnsureOutput
  \/ ComputePending
  \/ SkipInvalid
  \/ Fetch1
  \/ Fetch2
  \/ WriteBack
  \/ BatchSave
  \/ FinalSave

SpecResume == InitResume /\ [][NextResume]_vars

(***************************************************************************)
(* fetch_cnpj on one loaded page.                                          *)
(***************************************************************************)
\* what an element may show: nothing, a CNPJ, or a CNPJ glued to a word
\* (which CNPJ_REGEX does not match)
GLUED == <<"x">> \o CNPJ_A

\* the page source holds the text of the elements, then the rest of the page
PageOf(hasId, idText, hasLabel, labelText, rest) ==
  AnsDoc(hasId, idText, hasLabel, labelText,
         <<"<">> \o idText \o <<" ">> \o labelText \o <<" ">> \o rest \o <<">">>)

AnsPages ==
  {PageOf(i[1], i[2], l[1], l[2], r) :
     i \in {<<FALSE, E>>, <<TRUE, E>>, <<TRUE, CNPJ_A>>, <<TRUE, GLUED>>},
     l \in {<<FALSE, E>>, <<TRUE, E>>, <<TRUE, <<" ">> \o CNPJ_B>>},
     r \in {E, CNPJ_C, GLUED}}

InitChain ==
  /\ CrawlIdle
  /\ shards = NoShards
  /\ faults = 0
  /\ long = FALSE
  /\ RunStart("chain", NoFiles, 1, FALSE, "none", {})
  /\ arg \in [doc : AnsPages, reloaded : AnsPages]
  /\ ret = <<>>

CallFetchCnpj ==
  /\ stage = "chain" /\ pc = "start"
  /\ ret' = [value |-> fetch_cnpj(arg.doc, arg.reloaded)]
  /\ pc' = "done"
  /\ UNCHANGED <<shards, crawlVars, stage, fs, run, df_out, pending_idx, pos,
                 processed_since_save, data, faults, long, attempts, nfetch, writes,
                 first, unsaved, outAtStart, baseChanged, prevPc, fetched, emptied,
                 prevEmptied, pace, arg>>

NextChain == CallFetchCnpj

SpecChain == InitChain /\ [][NextChain]_vars

(***************************************************************************)
(* Properties.                                                             *)
(***************************************************************************)
\* a value that is empty or made of whitespace only
IsBlank(v) == \A k \in DOMAIN v : v[k] \in WSChars

\* C1: writing a result back never destroys a collected value -- a field of
\* the stage's group that is non-empty before the write-back keeps its value
\* when the fetched value for it is empty, and a non-empty fetched value is
\* what the field holds afterwards.
C1_NonDestructiveWriteBack ==
  [][(Enrich /\ pc = "writeback") =>
       \A c \in Range(Group(stage)) :
         /\ (~IsBlank(CurRow[c]) /\ IsBlank(data[c]))
              => df_out'.rows[CurIdx][c] = CurRow[c]
         /\ ~IsBlank(data[c]) => df_out'.rows[CurIdx][c] = data[c]]_vars

\* the run was started again on an unchanged base source after a run that
\* went through to its end
ResumedAfterCompleteRun == Enrich /\ run > 1 /\ prevPc = "done" /\ ~baseChanged

\* the file, as the stage reads it back, has every field of the group set
AllFilledFile(st, file) ==
  /\ file # Absent
  /\ \A c \in Range(Group(st)) : c \in Cols(file)
  /\ \A k \in 1..NRows(file) :
       \A c \in Range(Group(st)) : ~IsBlank(read_csv(file).rows[k][c])

\* C2 (as stated): a run started on an unchanged base source and on the
\* output file of a run that went through to its end loads no page and leaves
\* the output file identical.
C2_IdempotentResume ==
  ResumedAfterCompleteRun => (nfetch = 0 /\ fs[Out] = outAtStart)

\* C2 (amended): ... provided the output file of the first run, read back,
\* has no unset field of the stage's group; then the second run loads no page
\* and leaves the output file identical.
C2_IdempotentResumeOfFilledOutput ==
  (ResumedAfterCompleteRun /\ AllFilledFile(stage, outAtStart))
    => (nfetch = 0 /\ fs[Out] = outAtStart)

C2_Witness ==
  /\ ResumedAfterCompleteRun
  /\ AllFilledFile(stage, outAtStart)
  /\ NRows(outAtStart) > 1
  /\ pc = "done"

\* C3: whatever the listing does, the crawl loop makes at most as many
\* iterations as the total it read first, and it never persists a snapshot
\* for a page index it has persisted before.
C3_PaginationTermination ==
  firstTotal # None =>
    /\ iterations <= firstTotal
    /\ \A i, j \in DOMAIN yielded : i # j => yielded[i] # yielded[j]

\* ceil(p / n)
CeilDiv(p, n) == (p + n - 1) \div n

\* the records after which a run over p pending records saves: the n-th,
\* the 2n-th, ..., and the last one when records remain unsaved
Cadence(p, n) == [k \in 1..CeilDiv(p, n) |-> IF k * n <= p THEN k * n ELSE p]

\* the run has gone through its loop, or had nothing to do
RunComplete == Enrich /\ pc = "done"

\* C4 (as stated): a run over P pending records with batch size N writes the
\* output file exactly after the N-th, 2N-th, ... handled record and once
\* more after the loop iff records remain unsaved; ceil(P/N) writes in all.
C4_CheckpointCadence ==
  RunComplete => writes = Cadence(Len(pending_idx), BATCH_SIZE)

\* C4 (amended): ... and, when no output file exists at the start of the
\* run, once before the first record is handled; ceil(P/N) writes in a run
\* that finds its output file, ceil(P/N) + 1 in a run that does not.
C4_CheckpointCadenceWithInitialWrite ==
  RunComplete =>
    /\ writes = (IF outAtStart = Absent THEN <<0>> ELSE <<>>)
                  \o Cadence(Len(pending_idx), BATCH_SIZE)
    /\ Len(writes) = CeilDiv(Len(pending_idx), BATCH_SIZE)
                       + (IF outAtStart = Absent THEN 1 ELSE 0)

C4_Witness ==
  /\ RunComplete
  /\ Len(pending_idx) = 2 * BATCH_SIZE + 1
  /\ writes = <<0, BATCH_SIZE, 2 * BATCH_SIZE, 2 * BATCH_SIZE + 1>>

\* C5: a page load that raises is followed by exactly one more load of the
\* same record before its result is written back, and no failure of a page
\* load, of whatever kind, takes the run out of its loop.
C5_BoundedRetryWithoutPropagation ==
  Enrich =>
    /\ (pc = "writeback" /\ first \in {"selenium", "other"}) => attempts = 2
    /\ ~(pc = "crashed" /\ pending_idx # <<>>)

\* the pending set has just been computed: the loop has not handled a
\* record yet, or there was nothing to do
PendingJustComputed ==
  /\ Enrich
  /\ \/ pc = "fetch" /\ pos = 1 /\ unsaved = 0
     \/ pc = "done" /\ pending_idx = <<>> /\ unsaved = 0 /\ nfetch = 0

\* C6: when the pending set has just been computed, a row index is in it
\* iff some field of the stage's group is empty or whitespace-only in that
\* row of the working table.
C6_PendingSetCorrect ==
  PendingJustComputed =>
    \A i \in 1..NRows(df_out) :
      (i \in Range(pending_idx))
        <=> (\E c \in Range(Group(stage)) : IsBlank(df_out.rows[i][c]))

\* a row pending for a whitespace-only cell next to a row that is not pending
C6_Witness ==
  /\ PendingJustComputed
  /\ \E i, j \in 1..NRows(df_out) :
       /\ i \in Range(pending_idx)
       /\ \A c \in Range(Group(stage)) : df_out.rows[i][c] # E
       /\ j \notin Range(pending_idx)

\* C7: at every point of a run of an enrichment stage, get-operadora.py
\* included, the records handled in this run whose results are not in the
\* output file on disk number at most one batch.
C7_BoundedLossOnKill ==
  stage \in Stages => unsaved <= BATCH_SIZE

\* C8: after join.py has merged the page shards and get_cnpj.py has run
\* LOAD, in the first run and in every later one, no two rows of the working
\* table have the same 'Registro ANS'.
C8_KeyUniqueness ==
  (stage = "cnpj" /\ pc \notin {"start", "crashed"}) =>
    \A i, j \in 1..NRows(df_out) :
      i # j => df_out.rows[i]["Registro ANS"] # df_out.rows[j]["Registro ANS"]

\* the rows of table t with registration key k
RowsOfKey(t, k) == {i \in 1..NRows(t) : t.rows[i]["Registro ANS"] = k}

\* every non-empty group value the file holds for a key of the working
\* table is held by a row of that key in the working table
CollectedValuesKept(st, file, df) ==
  LET old == read_csv(file) IN
  \A k \in 1..NRows(old) :
    LET key == old.rows[k]["Registro ANS"] IN
    RowsOfKey(df, key) # {} =>
      \A c \in Range(Group(st)) :
        old.rows[k][c] # E => \E i \in RowsOfKey(df, key) : df.rows[i][c] = old.rows[k][c]

\* C9: after LOAD, every non-empty value of the stage's group that the
\* prior output file holds for a registration key of the fresh base source is
\* in the working table, also when the base source was regenerated with
\* other names or another CNPJ for that key.
C9_LoadPreservesCollected ==
  (Enrich /\ pc = "loaded" /\ outAtStart # Absent)
    => CollectedValuesKept(stage, outAtStart, df_out)

\* the number of records handled before the last write of this run
LastWriteAt == IF writes = <<>> THEN 0 ELSE writes[Len(writes)]

\* an all-empty result has just been written back
EmptyResultWritten == Enrich /\ pc = "batch" /\ AllEmpty(data)

\* the loop of a resumed run has gone past every pending record
ResumedLoopOver == Enrich /\ run > 1 /\ ~baseChanged /\ pc \in {"final", "done"}

\* C10: a record whose fetch yields an all-empty result has every field of
\* the group unset after the write-back, the run goes on, and the record is
\* counted in the batch counter; in the next run on the same base source a
\* row of its key is in the pending set, and its page has been loaded again
\* when the loop of that run is over.
C10_FailedRecordsRetriedByResume ==
  /\ EmptyResultWritten =>
       /\ \A c \in Range(Group(stage)) : CurRow[c] = E
       /\ processed_since_save = pos - LastWriteAt
       /\ processed_since_save >= 1
       /\ CurRow["Registro ANS"] \in emptied
  /\ (PendingJustComputed /\ run > 1 /\ ~baseChanged) =>
       \A key \in prevEmptied :
         \E i \in RowsOfKey(df_out, key) : i \in Range(pending_idx)
  /\ ResumedLoopOver =>
       \A key \in prevEmptied : \E i \in RowsOfKey(df_out, key) : i \in fetched

C10_Witness ==
  /\ ResumedLoopOver
  /\ prevEmptied # {}
  /\ \A key \in prevEmptied : \E i \in RowsOfKey(df_out, key) : i \in fetched

\* what each strategy finds on page p
ById(p) == IF p.hasId THEN extract_cnpj_text(p.idText) ELSE E
ByLabel(p) == IF p.hasLabel THEN extract_cnpj_text(p.labelText) ELSE E
BySource(p) == extract_cnpj_text(p.html)
\* the page in the browser once strategy 1 is over: the page as reloaded
\* when the element was not found at first, the page as loaded otherwise
PageAfterStrategy1 == IF arg.doc.hasId THEN arg.doc ELSE arg.reloaded
Strategy1 == IF ById(arg.doc) # E THEN ById(arg.doc) ELSE ById(PageAfterStrategy1)

ChainReturned == stage = "chain" /\ pc = "done"

\* C11: fetch_cnpj returns what strategy 1 (element by id) finds when that
\* is not empty; else what strategy 2 (cell next to the label 'CNPJ:') finds
\* when that is not empty; else what strategy 3 (pattern over the page
\* source) finds, which is the empty string when nothing matches; and it
\* returns in every case.
C11_ExtractionFallbackOrdering ==
  ChainReturned =>
    /\ Strategy1 # E => ret.value = Strategy1
    /\ (Strategy1 = E /\ ByLabel(PageAfterStrategy1) # E)
         => ret.value = ByLabel(PageAfterStrategy1)
    /\ (Strategy1 = E /\ ByLabel(PageAfterStrategy1) = E)
         => ret.value = BySource(PageAfterStrategy1)
    /\ ret.value \in {E, CNPJ_A, CNPJ_B, CNPJ_C}

\* the element by id shows no CNPJ, the cell next to the label does
C11_Witness ==
  /\ ChainReturned
  /\ arg.doc = arg.reloaded
  /\ arg.doc.hasId /\ Strategy1 = E
  /\ ret.value = CNPJ_B

\* the rows of the shard files, by ascending page index and then in the
\* order of the file
ShardRows == Flatten([k \in DOMAIN ShardsInOrder |-> ShardsInOrder[k].rows])

\* C12: the table join.py writes is the concatenation of the shard tables by
\* ascending page index and in-shard order, with as many rows as the shards
\* have together; and when a file name gives no page index the merger ends
\* in an error and writes no table.
C12_MergerOrderAndCompleteness ==
  stage = "join" =>
    /\ pc = "done" =>
         /\ fs[F_UNIFICADO] # Absent
         /\ NRows(fs[F_UNIFICADO]) = Len(ShardRows)
         /\ fs[F_UNIFICADO].rows = ShardRows
    /\ (\E f \in FileNames \ {F_UNIFICADO} : fs[f] # Absent) => pc # "done"

\* the CNPJ of the current row does not have exactly 14 digits
CurCnpjMalformed ==
  Cardinality({k \in DOMAIN CurRow["CNPJ"] : CurRow["CNPJ"][k] \in DigitChars}) # 14

\* C13: in stage 2 a pending row whose CNPJ does not have exactly 14 digits
\* is passed without a page load and without a change of the working table,
\* the run goes on, the batch counter is raised by one, and the step after
\* it writes the output file iff the counter has reached the batch size.
C13_InvalidKeySkippedButCounted ==
  [][/\ (stage = "biz" /\ pc = "fetch" /\ CurCnpjMalformed) =>
          /\ nfetch' = nfetch /\ fetched' = fetched
          /\ df_out' = df_out /\ fs' = fs
          /\ processed_since_save' = processed_since_save + 1
          /\ pc' = "batch_skip"
     /\ (stage = "biz" /\ pc = "batch_skip") =>
          /\ nfetch' = nfetch /\ df_out' = df_out
          /\ pc' \in {"fetch", "final"}
          /\ IF processed_since_save = BATCH_SIZE
             THEN fs'[Out] = df_out /\ processed_since_save' = 0
             ELSE fs' = fs /\ processed_since_save' = processed_since_save]_vars

\* the BATCH_SIZE-th pending row was skipped, and the file was written then
C13_Witness ==
  /\ stage = "biz" /\ pc = "done"
  /\ Len(pending_idx) >= BATCH_SIZE
  /\ pending_idx[BATCH_SIZE] \notin fetched
  /\ BATCH_SIZE \in Range(writes)
  /\ fs[Out].rows[pending_idx[BATCH_SIZE]]["CNPJ"] = CNPJ_BAD

\* the input file of the stage is missing or lacks the column the stage needs
SetupBroken ==
  LET inp == fs[INPUT_CSV(stage)] IN
  \/ inp = Absent
  \/ stage = "cnpj" /\ "Registro ANS" \notin Cols(inp)
  \/ stage = "biz" /\ "CNPJ" \notin Cols(inp)

\* C14: when the input file is missing or lacks the required column, the run
\* ends in an error at LOAD: the loop is never entered (no browser), no page
\* is loaded and the output file is not written.
C14_SetupFailureIsFatal ==
  (Enrich /\ SetupBroken) =>
    /\ pc \in {"start", "crashed"}
    /\ pending_idx = <<>> /\ pos = 0
    /\ nfetch = 0 /\ fetched = {}
    /\ writes = <<>> /\ fs[Out] = outAtStart

C14_Witness ==
  /\ stage = "biz" /\ pc = "crashed"
  /\ fs[INPUT_CSV(stage)] # Absent
  /\ "CNPJ" \notin Cols(fs[INPUT_CSV(stage)])

\* C15: after a click on 'next' the table is read again only when the table
\* element held before the click is gone, so that a snapshot taken after an
\* advance never holds the rows of a snapshot taken before it.
C15_StaleTableProtocol ==
  /\ (cpc = "extract" /\ old_tbody # 0 /\ ui.table) => ui.gen # old_tbody
  /\ (cpc = "save" /\ yielded # <<>>) =>
       \A k \in Pages : shards[k] # Absent => shards[k] # to_csv(PageTable(rows))


\* the driving loop has taken a step of its own (the page has not)
CrawlerStep == cpc' # cpc

\* the listing shows its last page: the paginator offers no next page
OnLastPage == ui.page >= ui.total

OnDisk(snapshot) ==
  \E k \in Pages : shards[k] = to_csv(PageTable(snapshot))

\* C17: a snapshot is written to its shard before the next advance is tried,
\* so when a later wait fails every snapshot of an earlier iteration is on
\* disk and at most the page of the running iteration is missing.
C17_PerPageFlushBeforeAdvance ==
  /\ cpc \in {"click", "wait_stale"} =>
       /\ Len(saved) = iterations
       /\ saved[Len(saved)] = rows /\ OnDisk(rows)
  /\ cpc = "crashed" =>
       /\ iterations - Len(saved) <= 1
       /\ \A i \in 1..Len(saved) : OnDisk(saved[i])


\* C18: in a run of an enrichment stage a delay lies between any two
\* consecutive requests of a detail page, the second load of a record and
\* the reload inside fetch_cnpj included.
C18_PacingBetweenFetches ==
  Enrich => ~pace.unpaced


\* the loop over the pending records is running
InLoop == Enrich /\ pc \in {"fetch", "retry", "writeback", "batch", "batch_skip"}

Ascending(s) == \A i, j \in DOMAIN s : i < j => s[i] < s[j]

\* C19: the pending set is computed once per run and is in ascending row
\* order; the loop handles its indices one after the other, each once, none
\* left out, and the set does not change while the loop runs.
C19_DeterministicProcessingOrder ==
  [][InLoop =>
       /\ Ascending(pending_idx)
       /\ pending_idx' = pending_idx
       /\ fetched \subseteq {pending_idx[k] : k \in 1..pos}
       /\ nfetch' > nfetch => fetched' = fetched \cup {CurIdx}
       /\ pos' \in {pos, pos + 1}
       /\ pos' = pos + 1 => pc \in {"batch", "batch_skip"}
       /\ pc' \notin {"fetch", "retry", "writeback", "batch", "batch_skip"} =>
            pos = Len(pending_idx)]_vars


\* the indicator cannot be read: no element, or no "<n> de <m>" in its text
IndicatorUnknown == get_current_and_total(ui) = <<None, None>>

\* C20: an iteration of the crawl loop that cannot read the indicator
\* goes on as page 1 of 1: its snapshot, once captured, is written under
\* index 1, only that one, and the loop ends without a click on 'next'.
C20_UnknownIndicatorTerminates ==
  [][/\ (cpc = "read" /\ CrawlerStep /\ IndicatorUnknown) =>
          /\ current' = 1 /\ total' = None
          /\ cpc' = "extract"
     /\ (cpc \in {"extract", "save"} /\ total = None) =>
          /\ current = 1
          /\ ui'.loading <= ui.loading
          /\ cpc' \in {"extract", "save", "done", "crashed"}
     /\ (cpc = "save" /\ CrawlerStep /\ total = None) =>
          /\ shards' = [shards EXCEPT ![1] = to_csv(PageTable(rows))]
          /\ Len(saved') = Len(saved) + 1
          /\ cpc' = "done"
     /\ cpc = "done" => (cpc' = "done" /\ shards' = shards /\ ui' = ui)]_vars

\* the indicator was lost after the first page: the second iteration saved
\* its snapshot under index 1 and ended the crawl
C20_Witness ==
  /\ cpc = "done" /\ total = None /\ current = 1
  /\ ~ui.label /\ iterations = 2
  /\ Len(saved) = 2 /\ shards[1] = to_csv(PageTable(rows))


\* C21: a shard written by the crawl loop under page index k holds the rows
\* of page k of the listing, whatever the page does between the read of the
\* indicator and the capture of the table.
C21_SnapshotTagMatchesContent ==
  stage = "crawl" =>
    \A k \in Pages : shards[k] # Absent => shards[k] = to_csv(PageTable(k))


\* the run is between the end of the load and its last save
AfterLoad ==
  Enrich /\ pc \in {"pending", "fetch", "retry", "writeback", "batch", "batch_skip", "final"}

\* C22: from the end of the load to the last save of a run, no page is
\* loaded for a row that is not pending and no field of such a row changes,
\* a pending row changes only in the fields of the stage's group, and the
\* working table keeps its columns, its number of rows and their order.
C22_FrameOfEnrichmentLoop ==
  [][AfterLoad =>
       /\ df_out'.cols = df_out.cols
       /\ NRows(df_out') = NRows(df_out)
       /\ \A i \in 1..NRows(df_out) :
            /\ i \notin Range(pending_idx') => df_out'.rows[i] = df_out.rows[i]
            /\ \A c \in Range(df_out.cols) \ Range(Group(stage)) :
                 df_out'.rows[i][c] = df_out.rows[i][c]
       /\ fetched' \subseteq Range(pending_idx')
       /\ fs'[Out] # fs[Out] => fs'[Out] = to_csv(df_out)]_vars

\* a result has been written into a pending row of a table that also has a
\* row that is not pending
C22_Witness ==
  /\ Enrich /\ pc = "batch" /\ nfetch > 0
  /\ \E c \in Range(Group(stage)) : ~IsBlank(CurRow[c])
  /\ \E i \in 1..NRows(df_out) : i \notin Range(pending_idx)


\* the base source as the load reads it
BaseSource == read_csv(fs[INPUT_CSV(stage)])

\* C23: after the load the working table has one row for each row of the
\* base source, in the order of the base source and with its values,
\* whatever the prior output file holds and in every run.
C23_LoadPreservesBaseShape ==
  (Enrich /\ pc \notin {"start", "crashed"}) =>
    /\ NRows(df_out) = NRows(BaseSource)
    /\ \A i \in 1..NRows(BaseSource) :
         i <= NRows(df_out) =>
           \A c \in Cols(BaseSource) : df_out.rows[i][c] = BaseSource.rows[i][c]


\* the merger's directory holds a .csv whose name has no integer prefix
ForeignCsvPresent == \E f \in FileNames : fs[f] # Absent

\* C24: every .csv of the directory counts as a shard and the order is
\* determined before a shard is read; with a .csv whose name has no integer
\* prefix the merger fails and writes nothing, so a second run of the
\* merger, which finds its own output, fails and leaves that output as it is.
C24_MergerFailsCleanly ==
  [][/\ (stage = "join" /\ pc = "start" /\ ForeignCsvPresent) =>
          /\ pc' = "crashed"
          /\ fs' = fs /\ shards' = shards /\ writes' = writes
     /\ (stage = "join" /\ pc = "done" /\ stage' = "join") =>
          /\ fs'[F_UNIFICADO] = fs[F_UNIFICADO] /\ fs[F_UNIFICADO] # Absent
          /\ pc' = "start" /\ run' = run + 1
     /\ (stage = "join" /\ pc = "crashed") => stage' # "join"]_vars

\* the second run of the merger has failed on its own output file
C24_Witness ==
  /\ stage = "join" /\ run = 2 /\ pc = "crashed"
  /\ writes = <<>>
  /\ fs[F_UNIFICADO] # Absent /\ fs[F_UNIFICADO].rows = ShardRows

====
